---- MODULE Spec2Model ----
(***************************************************************************)
(* LinearProbeTable of "Week 9/Lecture Code/hash_table.py": a hash table   *)
(* with linear probing that rehashes the primary cluster on deletion and   *)
(* grows to the next prime of a fixed list when an insertion finds the     *)
(* table full.                                                             *)
(*                                                                         *)
(* A key is a Python str, modelled as the sequence of its character codes  *)
(* (ord): "" is <<>>, "0" is <<48>>.  An item is the tuple <<key, data>>.  *)
(* The array self.table is the record [length, items]: length is           *)
(* len(self.table) and items maps each position that is not None to its    *)
(* item.  Python indexes PRIMES from 0, TLA+ from 1: PRIMES[i] of the      *)
(* source is PRIMES[i + 1] here and next_prime keeps the source's value.   *)
(***************************************************************************)
EXTENDS Integers, Sequences, FiniteSets, TLC

MIN_CAPACITY == 1

DEFAULT_HASH_BASE == 31

HASH_SEED == 31415

PRIMES ==
    << 3, 7, 11, 17, 23, 29, 37, 47, 59, 71, 89, 107, 131, 163, 197, 239, 293,
       353, 431, 521, 631, 761, 919, 1103, 1327, 1597, 1931, 2333, 2801, 3371,
       4049, 4861, 5839, 7013, 8419, 10103, 12143, 14591, 17519, 21023, 25229,
       30313, 36353, 43627, 52361, 62851, 75521, 90523, 108631, 130363, 156437,
       187751, 225307, 270371, 324449, 389357, 467237, 560689, 672827, 807403,
       968897, 1162687, 1395263, 1674319, 2009191, 2411033, 2893249, 3471899,
       4166287, 4999559, 5999471, 7199369 >>

(***************************************************************************)
(* Bounds of the model.                                                    *)
(***************************************************************************)
\* the first NumKeys keys of KeyList are the keys the calls draw from
NumKeys == 4

\* the table is constructed with a requested size in 0..MaxReq
MaxReq == 3

\* hash is called on tables constructed with the sizes 1..MaxHashSize
MaxHashSize == 40

\* __rehash is also called on tables constructed with a size within
\* GrowMargin of one of the last two primes
GrowMargin == 1

\* "", "0", "3", "1", "01", "10", "310", "4"
KeyList ==
    << <<>>, <<48>>, <<51>>, <<49>>, <<48, 49>>, <<49, 48>>, <<51, 49, 48>>,
       <<52>> >>

AllKeys == {KeyList[i] : i \in 1..Len(KeyList)}

Keys == {KeyList[i] : i \in 1..(IF NumKeys < Len(KeyList) THEN NumKeys ELSE Len(KeyList))}

\* the data: the code stores and returns them and never looks into them, so
\* two are enough to tell an update from the data set before
Values == {1, 2}

ReqSizes == 0..MaxReq

HashSizes == 1..MaxHashSize

LargeSizes ==
    {PRIMES[i] - d : i \in (Len(PRIMES) - 1)..Len(PRIMES), d \in 0..GrowMargin}

(***************************************************************************)
(* The outcomes of a call: it returns, or it raises one of the exceptions  *)
(* the code can raise.                                                     *)
(***************************************************************************)
OK == "ok"

KeyError == "KeyError"

IndexError == "IndexError"

ZeroDivisionError == "ZeroDivisionError"

Max(a, b) == IF a >= b THEN a ELSE b

(***************************************************************************)
(* ArrayR(length): an array of `length` positions, all None.               *)
(***************************************************************************)
ArrayR(length) == [length |-> length, items |-> <<>>]

IsNone(array, position) == position \notin DOMAIN array.items

\* self.table[position] = item
SetAt(array, position, item) ==
    [array EXCEPT !.items =
        [p \in (DOMAIN array.items) \cup {position} |->
            IF p = position THEN item ELSE array.items[p]]]

\* self.table[position] = None
ClearAt(array, position) ==
    [array EXCEPT !.items =
        [p \in (DOMAIN array.items) \ {position} |-> array.items[p]]]

ItemKey(item) == item[1]

ItemData(item) == item[2]

RECURSIVE InitCursor(_, _)
RECURSIVE HashLoop(_, _, _, _, _)
RECURSIVE ProbeLoop(_, _, _, _, _)
RECURSIVE SetItem(_, _, _)
RECURSIVE Rehash(_)
RECURSIVE RehashLoop(_, _, _)
RECURSIVE DelWalk(_, _, _)
RECURSIVE InitCursorStrict(_, _)
RECURSIVE HashLoopUnreduced(_, _, _, _, _)
RECURSIVE ProbeLoopFirstEmpty(_, _, _, _, _)
RECURSIVE StrInt(_)
RECURSIVE StrLoop(_, _, _)
RECURSIVE StrLoopFromOne(_, _, _)

\* the loop that stops at a prime equal to table_size
InitCursorStrict(table_size, next_prime) ==
    IF next_prime >= Len(PRIMES) THEN 0 - 1
    ELSE IF PRIMES[next_prime + 1] < table_size
         THEN InitCursorStrict(table_size, next_prime + 1)
         ELSE next_prime

(***************************************************************************)
(* __init__: the while loop that advances next_prime past every prime      *)
(* <= table_size.  It returns the cursor, or -1 when PRIMES[next_prime]    *)
(* indexes past the end of the list (IndexError).                          *)
(***************************************************************************)
InitCursor(table_size, next_prime) ==
    IF next_prime >= Len(PRIMES) THEN 0 - 1
    ELSE IF PRIMES[next_prime + 1] <= table_size
         THEN InitCursor(table_size, next_prime + 1)
         ELSE next_prime

\* LinearProbeTable(table_size): the object, or the exception raised
New(table_size) ==
    LET cursor == InitCursor(table_size, 0) IN
    IF cursor < 0
    THEN [err |-> IndexError,
          obj |-> [count |-> 0, table |-> ArrayR(Max(MIN_CAPACITY, table_size)),
                   next_prime |-> Len(PRIMES)]]
    ELSE [err |-> OK,
          obj |-> [count |-> 0, table |-> ArrayR(Max(MIN_CAPACITY, table_size)),
                   next_prime |-> cursor]]

\* __len__
LenOf(self) == self.count

\* is_empty
IsEmpty(self) == self.count = 0

\* is_full comparing with the last index instead of the length
IsFullLastIndex(self) == self.count = self.table.length - 1

\* is_full
IsFull(self) == self.count = self.table.length

\* the hash loop without the reduction of value modulo the table length
HashLoopUnreduced(key, i, value, a, length) ==
    IF i > Len(key) THEN value
    ELSE IF length - 1 = 0 THEN 0 - 1
    ELSE HashLoopUnreduced(key, i + 1, key[i] + a * value,
                           (a * DEFAULT_HASH_BASE) % (length - 1), length)

(***************************************************************************)
(* hash: the loop over the characters from index i on.  The result is the  *)
(* position, or -1 for the ZeroDivisionError of "% (len(self.table) - 1)"  *)
(* on a table of length 1.                                                 *)
(***************************************************************************)
HashLoop(key, i, value, a, length) ==
    IF i > Len(key) THEN value
    ELSE IF length - 1 = 0 THEN 0 - 1
    ELSE HashLoop(key, i + 1, (key[i] + a * value) % length,
                  (a * DEFAULT_HASH_BASE) % (length - 1), length)

Hash(self, key) == HashLoop(key, 1, 0, HASH_SEED, self.table.length)

\* the probe loop that, for an insertion, never looks for the key
ProbeLoopFirstEmpty(self, key, is_insert, position, n) ==
    IF n = 0 THEN [err |-> KeyError, position |-> position]
    ELSE IF IsNone(self.table, position)
    THEN IF is_insert THEN [err |-> OK, position |-> position]
         ELSE [err |-> KeyError, position |-> position]
    ELSE IF ~is_insert /\ ItemKey(self.table.items[position]) = key
    THEN [err |-> OK, position |-> position]
    ELSE ProbeLoopFirstEmpty(self, key, is_insert,
                             (position + 1) % self.table.length, n - 1)

(***************************************************************************)
(* __linear_probe: the for loop, with n iterations left.                   *)
(***************************************************************************)
ProbeLoop(self, key, is_insert, position, n) ==
    IF n = 0 THEN [err |-> KeyError, position |-> position]
    ELSE IF IsNone(self.table, position)
    THEN IF is_insert THEN [err |-> OK, position |-> position]
         ELSE [err |-> KeyError, position |-> position]
    ELSE IF ItemKey(self.table.items[position]) = key
    THEN [err |-> OK, position |-> position]
    ELSE ProbeLoop(self, key, is_insert, (position + 1) % self.table.length, n - 1)

LinearProbe(self, key, is_insert) ==
    LET position == Hash(self, key) IN
    IF position < 0 THEN [err |-> ZeroDivisionError, position |-> 0]
    ELSE IF is_insert /\ IsFull(self) THEN [err |-> KeyError, position |-> position]
    ELSE ProbeLoop(self, key, is_insert, position, self.table.length)

(***************************************************************************)
(* __getitem__                                                             *)
(***************************************************************************)
GetItem(self, key) ==
    LET probe == LinearProbe(self, key, FALSE) IN
    IF probe.err # OK THEN [err |-> probe.err, ret |-> 0]
    ELSE [err |-> OK, ret |-> ItemData(self.table.items[probe.position])]

\* the store that counts every set, also the update of a key
StoreCountAlways(self, position, key, data) ==
    [self EXCEPT !.count = @ + 1, !.table = SetAt(@, position, <<key, data>>)]

(***************************************************************************)
(* __setitem__, the else branch: count the item if the position was None   *)
(* and store it.                                                           *)
(***************************************************************************)
Store(self, position, key, data) ==
    [self EXCEPT
        !.count = IF IsNone(self.table, position) THEN @ + 1 ELSE @,
        !.table = SetAt(@, position, <<key, data>>)]

(***************************************************************************)
(* __setitem__: on the KeyError of the probe, __rehash and try again.      *)
(* grows counts the calls of __rehash made by this call.                   *)
(***************************************************************************)
SetItem(self, key, data) ==
    LET probe == LinearProbe(self, key, TRUE) IN
    IF probe.err = OK
    THEN [err |-> OK, obj |-> Store(self, probe.position, key, data), grows |-> 0]
    ELSE IF probe.err = KeyError
    THEN LET grown == Rehash(self) IN
         IF grown.err # OK
         THEN [err |-> grown.err, obj |-> grown.obj, grows |-> 1]
         ELSE LET again == SetItem(grown.obj, key, data) IN
              [again EXCEPT !.grows = @ + 1]
    ELSE [err |-> probe.err, obj |-> self, grows |-> 0]

\* the loop that copies every item to its old position instead of setting it
RehashLoopCopy(old, new_hash, i) ==
    [err |-> OK,
     obj |-> [new_hash EXCEPT !.count = Cardinality(DOMAIN old.items),
                              !.table = [@ EXCEPT !.items = old.items]]]

(***************************************************************************)
(* __rehash, the for loop from position i on: every item of the old table  *)
(* is set in new_hash.  An exception of a set ends the loop.               *)
(***************************************************************************)
RehashLoop(old, new_hash, i) ==
    LET rest == {p \in DOMAIN old.items : p >= i} IN
    IF rest = {} THEN [err |-> OK, obj |-> new_hash]
    ELSE LET p == CHOOSE q \in rest : \A r \in rest : q <= r
             done == SetItem(new_hash, ItemKey(old.items[p]), ItemData(old.items[p]))
         IN IF done.err # OK THEN [err |-> done.err, obj |-> done.obj]
            ELSE RehashLoop(old, done.obj, p + 1)

\* the size of the table __rehash builds
NewSize(self) == PRIMES[self.next_prime + 1]

(***************************************************************************)
(* __rehash: PRIMES[self.next_prime] raises IndexError past the end of the *)
(* list, and so does the constructor of new_hash when no prime is larger   *)
(* than the size it is given; both before self is changed.                 *)
(***************************************************************************)
Rehash(self) ==
    IF self.next_prime >= Len(PRIMES) THEN [err |-> IndexError, obj |-> self]
    ELSE LET made == New(NewSize(self)) IN
         IF made.err # OK THEN [err |-> made.err, obj |-> self]
         ELSE LET advanced == [self EXCEPT !.next_prime = @ + 1]
                  filled == RehashLoop(self.table, made.obj, 0)
              IN IF filled.err # OK THEN [err |-> filled.err, obj |-> advanced]
                 ELSE [err |-> OK,
                       obj |-> [advanced EXCEPT !.count = filled.obj.count,
                                                !.table = filled.obj.table]]

\* the deletion that leaves the rest of the cluster where it is
DelWalkNone(self, position, steps) == [err |-> OK, obj |-> self, steps |-> steps]

\* the item taken out of the table without the count going down
TakeOutKeepCount(self, position) ==
    [self EXCEPT !.table = ClearAt(@, position)]

\* __delitem__: self.table[position] = None; self.count -= 1
TakeOut(self, position) ==
    [self EXCEPT !.table = ClearAt(@, position), !.count = @ - 1]

\* __delitem__: the position after the deleted item, where the loop starts
FirstPosition(self, position) == (position + 1) % self.table.length

\* the loop that stays at its position
NextPositionStay(self, position) == position

\* __delitem__: the position the loop goes on to
NextPosition(self, position) == (position + 1) % self.table.length

(***************************************************************************)
(* __delitem__, the while loop at `position`: each item of the cluster is  *)
(* taken out and set again.  steps counts the items set again.             *)
(***************************************************************************)
DelWalk(self, position, steps) ==
    IF IsNone(self.table, position) THEN [err |-> OK, obj |-> self, steps |-> steps]
    ELSE LET item == self.table.items[position]
             taken == TakeOut(self, position)
             done == SetItem(taken, ItemKey(item), ItemData(item))
         IN IF done.err # OK THEN [err |-> done.err, obj |-> done.obj, steps |-> steps]
            ELSE DelWalk(done.obj, NextPosition(done.obj, position), steps + 1)

(***************************************************************************)
(* __delitem__                                                             *)
(***************************************************************************)
DelItem(self, key) ==
    LET probe == LinearProbe(self, key, FALSE) IN
    IF probe.err # OK THEN [err |-> probe.err, obj |-> self, steps |-> 0]
    ELSE LET cleared == TakeOut(self, probe.position)
         IN DelWalk(cleared, FirstPosition(cleared, probe.position), 0)

(***************************************************************************)
(* str of a non-negative int: its decimal digits as character codes.       *)
(***************************************************************************)
StrInt(n) ==
    IF n < 10 THEN <<48 + n>>
    ELSE StrInt(n \div 10) \o <<48 + (n % 10)>>

\* the loop of __str__ that never shows the item at position 0
StrLoopFromOne(array, i, result) ==
    LET rest == {p \in DOMAIN array.items : p >= i /\ p >= 1} IN
    IF rest = {} THEN result
    ELSE LET p == CHOOSE q \in rest : \A r \in rest : q <= r
             item == array.items[p]
         IN StrLoopFromOne(array, p + 1,
                result \o <<40>> \o ItemKey(item) \o <<44>>
                       \o StrInt(ItemData(item)) \o <<41, 10>>)

(***************************************************************************)
(* __str__, the for loop from position i on: "(" + str(key) + "," +        *)
(* str(value) + ")\n" is appended for every item that is not None.  The    *)
(* string is the sequence of its character codes: "(" is 40, "," is 44,    *)
(* ")" is 41 and "\n" is 10.                                               *)
(***************************************************************************)
StrLoop(array, i, result) ==
    LET rest == {p \in DOMAIN array.items : p >= i} IN
    IF rest = {} THEN result
    ELSE LET p == CHOOSE q \in rest : \A r \in rest : q <= r
             item == array.items[p]
         IN StrLoop(array, p + 1,
                result \o <<40>> \o ItemKey(item) \o <<44>>
                       \o StrInt(ItemData(item)) \o <<41, 10>>)

\* __str__
Str(self) == StrLoop(self.table, 0, <<>>)

(***************************************************************************)
(* The state: the three attributes of the table, the last call with its    *)
(* outcome, and the history of the calls: keysSet is the set of the keys   *)
(* that were set and not deleted since.                                    *)
(***************************************************************************)
VARIABLES count, table, next_prime, last, keysSet

vars == <<count, table, next_prime, last, keysSet>>

self == [count |-> count, table |-> table, next_prime |-> next_prime]

Call(op, key, data, err, ret, grows, steps) ==
    [op |-> op, key |-> key, data |-> data, err |-> err, ret |-> ret,
     grows |-> grows, steps |-> steps]

Adopt(obj) ==
    /\ count' = obj.count
    /\ table' = obj.table
    /\ next_prime' = obj.next_prime

\* the state after LinearProbeTable(table_size) returned
Constructed(table_size) ==
    /\ New(table_size).err = OK
    /\ count = New(table_size).obj.count
    /\ table = New(table_size).obj.table
    /\ next_prime = New(table_size).obj.next_prime
    /\ last = Call("new", <<>>, 0, OK, 0, 0, 0)
    /\ keysSet = {}

Init == \E table_size \in ReqSizes : Constructed(table_size)

\* table[key] = data
Set(key, data) ==
    LET done == SetItem(self, key, data) IN
    /\ Adopt(done.obj)
    /\ last' = Call("set", key, data, done.err, 0, done.grows, 0)
    /\ keysSet' = IF done.err = OK THEN keysSet \cup {key} ELSE keysSet

\* table[key]
Get(key) ==
    LET got == GetItem(self, key) IN
    /\ last' = Call("get", key, 0, got.err, got.ret, 0, 0)
    /\ UNCHANGED <<count, table, next_prime, keysSet>>

\* del table[key]
Del(key) ==
    LET done == DelItem(self, key) IN
    /\ Adopt(done.obj)
    /\ last' = Call("del", key, 0, done.err, 0, 0, done.steps)
    /\ keysSet' = IF done.err = OK THEN keysSet \ {key} ELSE keysSet

Next ==
    \/ \E key \in Keys, data \in Values : Set(key, data)
    \/ \E key \in Keys : Get(key)
    \/ \E key \in Keys : Del(key)

Spec == Init /\ [][Next]_vars

(***************************************************************************)
(* hash called on empty tables of the sizes 1..MaxHashSize, with every key *)
(* of KeyList.                                                             *)
(***************************************************************************)
InitHash == \E table_size \in HashSizes : Constructed(table_size)

\* table.hash(key)
HashCall(key) ==
    LET position == Hash(self, key) IN
    /\ last' = Call("hash", key, 0, IF position < 0 THEN ZeroDivisionError ELSE OK,
                    position, 0, 0)
    /\ UNCHANGED <<count, table, next_prime, keysSet>>

NextHash == \E key \in AllKeys : HashCall(key)

SpecHash == InitHash /\ [][NextHash]_vars

(***************************************************************************)
(* __rehash called as an operation of its own, on tables of small sizes    *)
(* and of sizes next to the last primes of the list, which no sequence of  *)
(* sets within the bounds fills.                                           *)
(***************************************************************************)
InitGrow ==
    \E table_size \in ReqSizes \cup LargeSizes :
        New(table_size).err = OK /\ Constructed(table_size)

\* table._LinearProbeTable__rehash()
Grow ==
    LET grown == Rehash(self) IN
    /\ Adopt(grown.obj)
    /\ last' = Call("grow", <<>>, 0, grown.err, 0, 1, 0)
    /\ UNCHANGED keysSet

NextGrow ==
    \/ Grow
    \/ \E key \in Keys, data \in Values : Set(key, data)

SpecGrow == InitGrow /\ [][NextGrow]_vars

(***************************************************************************)
(* Every operation, __rehash among them, on tables of small sizes and of   *)
(* sizes next to the last primes.                                          *)
(***************************************************************************)
NextOps ==
    \/ Grow
    \/ \E key \in Keys, data \in Values : Set(key, data)
    \/ \E key \in Keys : Get(key)
    \/ \E key \in Keys : Del(key)

SpecOps == InitGrow /\ [][NextOps]_vars

(***************************************************************************)
(* Sequences of set calls on a freshly constructed table.                  *)
(***************************************************************************)
NextSet == \E key \in Keys, data \in Values : Set(key, data)

SpecSet == Init /\ [][NextSet]_vars

(***************************************************************************)
(* __delitem__ step by step: DelBegin is the probe and the removal of the  *)
(* item (lines 70-74), DelStep one turn of the while loop (lines 76-80)    *)
(* and DelEnd the loop meeting a None.  While the delete runs, last.op is  *)
(* "walk" and last.ret the loop's position; no other call starts before    *)
(* the delete has ended.  The items set again are not counted here.        *)
(***************************************************************************)
Idle == last.op # "walk"

DelBegin(key) ==
    LET probe == LinearProbe(self, key, FALSE) IN
    /\ Idle
    /\ IF probe.err # OK
       THEN /\ last' = Call("del", key, 0, probe.err, 0, 0, 0)
            /\ UNCHANGED <<count, table, next_prime, keysSet>>
       ELSE /\ Adopt(TakeOut(self, probe.position))
            /\ last' = Call("walk", key, 0, OK,
                            FirstPosition(self, probe.position), 0, 0)
            /\ keysSet' = keysSet \ {key}

DelStep ==
    /\ last.op = "walk"
    /\ ~IsNone(table, last.ret)
    /\ LET item == table.items[last.ret]
           taken == TakeOut(self, last.ret)
           done == SetItem(taken, ItemKey(item), ItemData(item))
       IN /\ Adopt(done.obj)
          /\ last' = IF done.err # OK
                     THEN Call("del", last.key, 0, done.err, 0,
                               last.grows + done.grows, 0)
                     ELSE Call("walk", last.key, 0, OK,
                               NextPosition(done.obj, last.ret),
                               last.grows + done.grows, 0)
    /\ UNCHANGED keysSet

DelEnd ==
    /\ last.op = "walk"
    /\ IsNone(table, last.ret)
    /\ last' = Call("del", last.key, 0, OK, 0, last.grows, 0)
    /\ UNCHANGED <<count, table, next_prime, keysSet>>

NextSteps ==
    \/ \E key \in Keys, data \in Values : Idle /\ Set(key, data)
    \/ \E key \in Keys : DelBegin(key)
    \/ DelStep
    \/ DelEnd

SpecSteps == Init /\ [][NextSteps]_vars

\* a call that has started runs on until it returns or raises
SpecStepsFair == SpecSteps /\ WF_vars(DelStep) /\ WF_vars(DelEnd)

(***************************************************************************)
(* The constructor called with small sizes, negative ones, and sizes next  *)
(* to the last primes of the list and beyond the last one.  When __init__  *)
(* raises, no table exists and no call follows; the attributes are those   *)
(* assigned when the exception was raised.  last.data is the table_size.   *)
(***************************************************************************)
NewSizes ==
    ((0 - 2)..MaxReq) \cup LargeSizes
        \cup {PRIMES[Len(PRIMES)] + d : d \in 1..GrowMargin}

\* the state after the call LinearProbeTable(table_size)
Attempted(table_size) ==
    LET made == New(table_size) IN
    /\ count = made.obj.count
    /\ table = made.obj.table
    /\ next_prime = made.obj.next_prime
    /\ last = Call("new", <<>>, table_size, made.err, 0, 0, 0)
    /\ keysSet = {}

InitNew == \E table_size \in NewSizes : Attempted(table_size)

\* the constructor returned a table
Exists == ~(last.op = "new" /\ last.err # OK)

NextNew == \E key \in Keys, data \in Values : Exists /\ Set(key, data)

SpecNew == InitNew /\ [][NextNew]_vars

(***************************************************************************)
(* What the claims speak of.                                               *)
(***************************************************************************)
\* the table after the step
selfNext == [count |-> count', table |-> table', next_prime |-> next_prime']

\* the (key, data) pairs that get returns
Retrievable(obj) ==
    {<<key, GetItem(obj, key).ret>> : key \in {k \in AllKeys : GetItem(obj, k).err = OK}}

\* the positions of the array that hold an item of the key
SlotsOf(obj, key) ==
    {p \in DOMAIN obj.table.items : ItemKey(obj.table.items[p]) = key}

Except(pairs, key) == {pair \in pairs : pair[1] # key}

\* hash written out for the keys of one, two and three characters
HashUnrolled(key, C) ==
    LET a0 == HASH_SEED
        v1 == (key[1] + a0 * 0) % C
        a1 == (a0 * 31) % (C - 1)
        v2 == (key[2] + a1 * v1) % C
        a2 == (a1 * 31) % (C - 1)
        v3 == (key[3] + a2 * v2) % C
    IN CASE Len(key) = 1 -> v1
         [] Len(key) = 2 -> v2
         [] Len(key) = 3 -> v3

RECURSIVE SplitLines(_, _, _, _)
\* the lines of a string: the pieces that end at a "\n", and what is left
\* after the last "\n" if anything is
SplitLines(s, i, line, lines) ==
    IF i > Len(s) THEN (IF line = <<>> THEN lines ELSE Append(lines, line))
    ELSE IF s[i] = 10 THEN SplitLines(s, i + 1, <<>>, Append(lines, line))
    ELSE SplitLines(s, i + 1, Append(line, s[i]), lines)

\* "(key,data)" for the data of one digit
EntryLine(key, data) == <<40>> \o key \o <<44, 48 + data, 41>>

\* no position on the way from hash(key) to position p is None
NoGap(obj, p) ==
    LET h == Hash(obj, ItemKey(obj.table.items[p])) IN
    /\ h >= 0
    /\ \A d \in 0..((p - h) % obj.table.length) :
          ~IsNone(obj.table, (h + d) % obj.table.length)

\* every item is reached from the hash of its key without meeting a None
NoGaps(obj) == \A p \in DOMAIN obj.table.items : NoGap(obj, p)

(***************************************************************************)
(* C1: a successful delete of a key makes get of that key raise KeyError,  *)
(* and every other key that get returned before the delete is returned     *)
(* with the same data after it.                                            *)
(***************************************************************************)
C1_DeleteRemovesOnlyItsKey ==
    [][(last'.op = "del" /\ last'.err = OK) =>
         /\ GetItem(selfNext, last'.key).err = KeyError
         /\ \A other \in Keys \ {last'.key} :
               GetItem(self, other).err = OK =>
                   GetItem(selfNext, other) = GetItem(self, other)]_vars

\* a delete that set at least two items of the cluster again on a grown table
C1_Witness ==
    /\ last.op = "del" /\ last.err = OK /\ last.steps >= 2
    /\ count >= 2 /\ next_prime >= 2

(***************************************************************************)
(* C2: when a set grows the table, __rehash leaves the pairs that get      *)
(* returns and the count as they were, and after the set the pairs of the  *)
(* keys other than the key set are those from before the set.              *)
(***************************************************************************)
C2_GrowthPreservesMapping ==
    [][(last'.op = "set" /\ last'.grows >= 1 /\ last'.err = OK) =>
         /\ Rehash(self).err = OK
         /\ Retrievable(Rehash(self).obj) = Retrievable(self)
         /\ LenOf(Rehash(self).obj) = LenOf(self)
         /\ Except(Retrievable(selfNext), last'.key)
              = Except(Retrievable(self), last'.key)]_vars

\* a set that grew a table of three items to the size 7
C2_Witness ==
    /\ last.op = "set" /\ last.err = OK /\ last.grows = 1
    /\ count = 4 /\ table.length = 7

(***************************************************************************)
(* C3: after any sequence of set calls on a fresh table, len is the number *)
(* of distinct keys that were set.                                         *)
(***************************************************************************)
C3_LenIsDistinctKeys == LenOf(self) = Cardinality(keysSet)

\* four keys set, the same key set more than once or not, across two resizes
C3_Witness ==
    /\ Cardinality(keysSet) = 4 /\ next_prime >= 2 /\ last.grows = 1

(***************************************************************************)
(* C4: a set of a key right after a set of the same key leaves get of the  *)
(* key returning the second data, len as it was, and exactly one position  *)
(* of the array holding the key.                                           *)
(***************************************************************************)
C4_SetUpdates ==
    [][(/\ last.op = "set" /\ last.err = OK
        /\ last'.op = "set" /\ last'.err = OK /\ last'.key = last.key) =>
         /\ GetItem(selfNext, last'.key) = [err |-> OK, ret |-> last'.data]
         /\ LenOf(selfNext) = LenOf(self)
         /\ Cardinality(SlotsOf(selfNext, last'.key)) = 1]_vars

\* the set of a key already there found the table full and grew it
C4_Witness ==
    /\ last.op = "set" /\ last.err = OK /\ last.grows = 1
    /\ count = 3 /\ table.length = 7 /\ last.data = 2

(***************************************************************************)
(* C5: a set returns whenever next_prime indexes a prime of the list, and  *)
(* the only exception a set raises is the one of the exhausted list.       *)
(***************************************************************************)
C5_SetNeverFails ==
    [][last'.op = "set" =>
         /\ last'.err \in {OK, IndexError}
         /\ next_prime < Len(PRIMES) => last'.err = OK]_vars

(***************************************************************************)
(* C6: whenever next_prime indexes a prime of the list, __rehash returns   *)
(* and the table has that prime as its length.                             *)
(***************************************************************************)
C6_GrowAdoptsEveryPrime ==
    [][(last'.op = "grow" /\ next_prime < Len(PRIMES)) =>
         /\ last'.err = OK
         /\ table'.length = PRIMES[next_prime + 1]]_vars

(***************************************************************************)
(* C7: a set calls __rehash at most once; the table __rehash leaves has    *)
(* more positions than items; and a set never raises KeyError.             *)
(***************************************************************************)
C7_OneGrowPerSet ==
    [][last'.op = "set" =>
         /\ last'.grows <= 1
         /\ last'.err # KeyError
         /\ last'.grows = 1 =>
               /\ Rehash(self).obj.table.length > Rehash(self).obj.count
               /\ ~IsFull(Rehash(self).obj)]_vars

\* a set that grew the table
C7_Witness == last.op = "set" /\ last.grows = 1 /\ last.err = OK /\ count >= 3

(***************************************************************************)
(* C8: a get or a delete of a key that no position holds raises KeyError,  *)
(* and no call that raises changes count, table or next_prime.             *)
(***************************************************************************)
C8_FailuresChangeNothing ==
    [][/\ (last'.op \in {"get", "del"} /\ SlotsOf(self, last'.key) = {}) =>
             last'.err = KeyError
       /\ (last'.op \in {"get", "del", "set"} /\ last'.err # OK) =>
             UNCHANGED <<count, table, next_prime>>]_vars

(***************************************************************************)
(* C9: is_full is true exactly when len is the length of the array,        *)
(* is_empty exactly when len is 0, and a table that holds as many distinct *)
(* keys as its array has positions is full.                                *)
(***************************************************************************)
C9_FullAndEmpty ==
    /\ IsFull(self) <=> (LenOf(self) = table.length)
    /\ IsEmpty(self) <=> (LenOf(self) = 0)
    /\ Cardinality(keysSet) = table.length => IsFull(self)
    /\ keysSet = {} => IsEmpty(self)

\* three distinct keys set in a table constructed with the size 3
C9_Witness ==
    /\ Cardinality(keysSet) = 3 /\ table.length = 3 /\ next_prime = 1
    /\ IsFull(self) /\ ~IsEmpty(self)

(***************************************************************************)
(* C10: on a table of length C >= 2, hash of a non-empty key returns a     *)
(* position p with 0 <= p < C, the value of                                *)
(* value = (char_code + a * value) mod C, a = (a * 31) mod (C - 1), from   *)
(* a = 31415 and value = 0.                                                *)
(***************************************************************************)
C10_HashInRange ==
    (last.op = "hash" /\ last.key # <<>> /\ table.length >= 2) =>
        /\ last.err = OK
        /\ 0 <= last.ret /\ last.ret < table.length
        /\ last.ret = HashUnrolled(last.key, table.length)

\* hash of a key of three characters on a table of length 2, where a becomes 0
C10_Witness ==
    /\ last.op = "hash" /\ Len(last.key) = 3 /\ table.length = 2 /\ last.ret = 0

(***************************************************************************)
(* C11: the constructor called with any integer n returns a table with     *)
(* every position None, count 0, max(MIN_CAPACITY, n) positions, and       *)
(* next_prime at the first prime of the list that is greater than n.       *)
(***************************************************************************)
C11_ConstructionAnySize ==
    last.op = "new" =>
        /\ last.err = OK
        /\ count = 0
        /\ DOMAIN table.items = {}
        /\ table.length = Max(MIN_CAPACITY, last.data)
        /\ next_prime < Len(PRIMES)
        /\ PRIMES[next_prime + 1] > last.data
        /\ \A i \in 1..next_prime : PRIMES[i] <= last.data

(***************************************************************************)
(* C12: str of the table is "" when the table is empty, and in every state *)
(* it is made of exactly one line "(key,data)" for every key set and not   *)
(* deleted, with the data get returns, each ended by a newline and nothing *)
(* else: len(table) lines in all.                                          *)
(***************************************************************************)
C12_StrListsTheItems ==
    LET s == Str(self)
        lines == SplitLines(s, 1, <<>>, <<>>)
    IN /\ IsEmpty(self) => s = <<>>
       /\ s # <<>> => s[Len(s)] = 10
       /\ Len(lines) = LenOf(self)
       /\ {lines[i] : i \in 1..Len(lines)}
            = {EntryLine(key, GetItem(self, key).ret) : key \in keysSet}
       /\ Cardinality({lines[i] : i \in 1..Len(lines)}) = Len(lines)

\* three items shown, position 0 among them, after a growth and a delete
C12_Witness ==
    /\ LenOf(self) = 3 /\ ~IsNone(table, 0) /\ table.length = 7
    /\ Len(Str(self)) >= 16 /\ last.op = "del"

(***************************************************************************)
(* C13: after every set and every delete, for every item, at position p    *)
(* with key k, every position from hash(k), taken for the current length   *)
(* of the array, forward with wrap-around to p holds an item.              *)
(***************************************************************************)
C13_NoGap == NoGaps(self)

\* a delete moved the rest of a cluster back, leaving an item away from its hash
C13_Witness ==
    /\ last.op = "del" /\ last.err = OK /\ last.steps >= 2 /\ count >= 2
    /\ \E p \in DOMAIN table.items : Hash(self, ItemKey(table.items[p])) # p


\* count is the number of occupied positions of obj, and within 0..capacity
CountOK(obj) ==
    /\ obj.count = Cardinality(DOMAIN obj.table.items)
    /\ 0 <= obj.count
    /\ obj.count <= obj.table.length

\* the table a running delete has: the item at the loop's position taken
\* out and not yet set again
MidStep == TakeOut(self, last.ret)

(***************************************************************************)
(* C14: in every state a call or a step of delete's repair leaves, count   *)
(* is the number of occupied positions and 0 <= count <= capacity; the     *)
(* same holds while an item of the cluster is out of the table, and of     *)
(* the table a grow of a full table adopts.                                *)
(***************************************************************************)
C14_CountIsOccupied ==
    /\ CountOK(self)
    /\ (last.op = "walk" /\ ~IsNone(table, last.ret)) => CountOK(MidStep)
    /\ IsFull(self) => CountOK(Rehash(self).obj)

\* a delete is repairing a cluster of a table that has grown, and is at an
\* item it will set again
C14_Witness ==
    /\ last.op = "walk"
    /\ ~IsNone(table, last.ret)
    /\ table.length > MaxReq
    /\ count >= 2


\* no key is in two positions of obj
Unique(obj) ==
    \A p, q \in DOMAIN obj.table.items :
        ItemKey(obj.table.items[p]) = ItemKey(obj.table.items[q]) => p = q

\* __rehash: new_hash after the loop has gone through the positions below i
NewHashAt(obj, i) ==
    LET seen == [length |-> obj.table.length,
                 items |-> [p \in {q \in DOMAIN obj.table.items : q < i}
                               |-> obj.table.items[p]]]
    IN RehashLoop(seen, New(NewSize(obj)).obj, 0).obj

(***************************************************************************)
(* C15: no key is in two positions of the table: after every call and      *)
(* every turn of delete's repair loop, while an item of the cluster is out *)
(* of the table, and in the new table of a grow after each item copied.    *)
(***************************************************************************)
C15_KeysUnique ==
    /\ Unique(self)
    /\ (last.op = "walk" /\ ~IsNone(table, last.ret)) => Unique(MidStep)
    /\ IsFull(self) =>
           \A i \in 0..table.length :
               /\ Unique(NewHashAt(self, i))
               /\ NewHashAt(self, i).count = Cardinality({p \in DOMAIN table.items : p < i})

\* a delete is repairing a cluster whose keys all have the hash of the key
\* deleted, the position before the loop's being empty
C15_Witness ==
    /\ last.op = "walk"
    /\ ~IsNone(table, last.ret)
    /\ count >= 2
    /\ \A p \in DOMAIN table.items : Hash(self, ItemKey(table.items[p])) = Hash(self, last.key)
    /\ IsNone(table, (last.ret + table.length - 1) % table.length)


(***************************************************************************)
(* C16: a delete that has removed its item ends: the repair loop meets an  *)
(* empty position after finitely many turns, also when the table was full  *)
(* before the delete.                                                      *)
(***************************************************************************)
C16_DeleteTerminates == (last.op = "walk") ~> (last.op = "del")

\* a delete from a full table of three or more items has ended
C16_Witness ==
    /\ last.op = "del"
    /\ last.err = OK
    /\ count = table.length - 1
    /\ count >= 2


(***************************************************************************)
(* C17: a delete that succeeds leaves the capacity and the prime cursor as *)
(* they were and takes exactly one from len: no item of the cluster set    *)
(* again by the repair makes the table grow.                               *)
(***************************************************************************)
C17_DeleteNeverGrows ==
    [][(last'.op = "del" /\ last'.err = OK) =>
           /\ table'.length = table.length
           /\ next_prime' = next_prime
           /\ LenOf(selfNext) = LenOf(self) - 1]_vars

\* a delete from a full table has set two or more items of the cluster again
C17_Witness ==
    /\ last.op = "del"
    /\ last.err = OK
    /\ last.steps >= 2
    /\ LenOf(self) = table.length - 1


(***************************************************************************)
(* C18: no operation lowers next_prime or the capacity; every __rehash,    *)
(* and every step that changes either of them, makes the capacity the      *)
(* prime at next_prime, which is more than the capacity was, and adds one  *)
(* to next_prime; and in every state the prime at next_prime is more than  *)
(* the capacity.                                                           *)
(***************************************************************************)
C18_GrowthOneWay ==
    [][/\ next_prime' >= next_prime
       /\ table'.length >= table.length
       /\ (\/ last'.op = "grow"
           \/ table'.length # table.length
           \/ next_prime' # next_prime) =>
              /\ table'.length = PRIMES[next_prime + 1]
              /\ table'.length > table.length
              /\ next_prime' = next_prime + 1
       /\ PRIMES[next_prime + 1] > table.length
       /\ PRIMES[next_prime' + 1] > table'.length]_vars

\* the part of C18 about the __rehash calls that return, and about states
C18_ReturningGrows ==
    [][/\ next_prime' >= next_prime
       /\ table'.length >= table.length
       /\ (\/ last'.op = "grow" /\ last'.err = OK
           \/ table'.length # table.length
           \/ next_prime' # next_prime) =>
              /\ table'.length = PRIMES[next_prime + 1]
              /\ table'.length > table.length
              /\ next_prime' = next_prime + 1
       /\ next_prime' < Len(PRIMES)
       /\ PRIMES[next_prime' + 1] > table'.length]_vars


\* a traversal of all the positions of obj meets neither an empty position
\* nor one that holds key
NoSlotFor(obj, key) ==
    \A p \in 0..(obj.table.length - 1) :
        /\ ~IsNone(obj.table, p)
        /\ ItemKey(obj.table.items[p]) # key

(***************************************************************************)
(* C19 as stated: a set changes the capacity only if a traversal of all    *)
(* the positions meets neither an empty position nor the key, and a set of *)
(* a key that is in the table changes neither capacity nor next_prime.     *)
(***************************************************************************)
C19_GrowsOnlyWithoutSlot ==
    [][last'.op = "set" =>
           /\ table'.length # table.length => NoSlotFor(self, last'.key)
           /\ SlotsOf(self, last'.key) # {} =>
                  /\ table'.length = table.length
                  /\ next_prime' = next_prime]_vars

(***************************************************************************)
(* C19 amended: a set changes the capacity or next_prime only if the table *)
(* is full (count = capacity) when the set is called, whether its key is   *)
(* in the table or not; a set of a key that is in a table that is not full *)
(* changes neither.                                                        *)
(***************************************************************************)
C19_GrowsOnlyWhenFull ==
    [][last'.op = "set" =>
           /\ (table'.length # table.length \/ next_prime' # next_prime) =>
                  count = table.length
           /\ (SlotsOf(self, last'.key) # {} /\ count # table.length) =>
                  /\ table'.length = table.length
                  /\ next_prime' = next_prime]_vars

\* a set of a fourth key has made a full table of three items grow
C19_Witness ==
    /\ last.op = "set"
    /\ last.err = OK
    /\ last.grows = 1
    /\ count = 4
    /\ table.length = PRIMES[next_prime]


\* the keys of the items the loop of __delitem__ takes out and sets again,
\* in the order of the loop, from `position` on
RECURSIVE WalkKeys(_, _)
WalkKeys(obj, position) ==
    IF IsNone(obj.table, position) THEN << >>
    ELSE LET item == obj.table.items[position]
             done == SetItem(TakeOut(obj, position), ItemKey(item), ItemData(item))
         IN IF done.err # OK THEN << >>
            ELSE <<ItemKey(item)>> \o WalkKeys(done.obj, NextPosition(done.obj, position))

\* the keys a delete of key from obj sets again
RepairKeys(obj, key) ==
    LET position == LinearProbe(obj, key, FALSE).position
        cleared == TakeOut(obj, position)
    IN WalkKeys(cleared, FirstPosition(cleared, position))

\* how many times key is in the sequence keys
Times(keys, key) == Cardinality({i \in DOMAIN keys : keys[i] = key})

(***************************************************************************)
(* C20 as stated: a delete from a table of capacity C sets each of the     *)
(* other items again at most once, at most C - 1 items in all, full tables *)
(* included.                                                               *)
(***************************************************************************)
C20_RepairOnePass ==
    [][(last'.op = "del" /\ last'.err = OK) =>
           LET keys == RepairKeys(self, last'.key) IN
           /\ Len(keys) = last'.steps
           /\ \A key \in AllKeys : Times(keys, key) <= 1
           /\ last'.steps <= table.length - 1]_vars

(***************************************************************************)
(* C20 amended: a delete from a table of capacity C that is not full sets  *)
(* each of the other items again at most once, at most C - 2 items in all; *)
(* a delete from a full table sets each of them again at most twice, at    *)
(* most 2 * (C - 1) times in all.                                          *)
(***************************************************************************)
C20_RepairBounded ==
    [][(last'.op = "del" /\ last'.err = OK) =>
           LET keys == RepairKeys(self, last'.key)
               laps == IF count = table.length THEN 2 ELSE 1
           IN /\ Len(keys) = last'.steps
              /\ \A key \in AllKeys : Times(keys, key) <= laps
              /\ last'.steps <= IF count = table.length
                                THEN 2 * (table.length - 1)
                                ELSE table.length - 2]_vars

\* a delete from a full table of three or more items has set each of the
\* others again twice
C20_Witness ==
    /\ last.op = "del"
    /\ last.err = OK
    /\ table.length >= 3
    /\ count = table.length - 1
    /\ last.steps = 2 * count

====
